---- MODULE Spec2Model ----
(***************************************************************************)
(* Model of "Multi Thread and PDF Mass Download.py": the download status   *)
(* ledger, the selection of rows, download_pdf with its nested             *)
(* attempt_download, the ThreadPoolExecutor block that runs the tasks and  *)
(* the as_completed loop that records their results.                       *)
(***************************************************************************)
EXTENDS Integers, Sequences, FiniteSets, TLC

\* ------------------------------------------------------------------ bounds
\* Rows of the spreadsheet in the general specification.
NumRecords == 2
\* Largest number typed at the "number of PDFs to download" prompt.
MaxLimit == 2
\* Runs of the program (sessions) in one behaviour.
MaxSessions == 2
\* Requests that fail, over a behaviour.
MaxFaults == 4
\* Connectivity probes that report offline, over a behaviour.
MaxOffline == 2
\* Rows of the spreadsheet in the pool specification (more than max_workers).
NumPoolRecords == 11

\* ------------------------------------------------------- program constants
max_workers == 10
max_attempts == 3
countdown_seconds == 180
chunk_size == 8192

\* ------------------------------------------------------------------ values
NaN == "NaN"
\* Cells of the File Size column: a text, or a size in KB with two decimals.
Text(s) == [text |-> s, whole |-> 0, cents |-> 0]
NoColumn == Text("<no column>")
NaNCell == Text("NaN")
NotApplicable == Text("N/A")
\* The local file_size_kb: "N/A", or a number (kept in bytes).
NoSize == [na |-> TRUE, bytes |-> 0]
NotAttempted == "Ikke downloadet"
Downloadet == "Downloadet"
NotPdf == "Invalid Download (Not a PDF file)"
TimeoutStatus == "Invalid Download (Timeout)"
HttpStatus == "Invalid Download (HTTP Error 404)"
ConnStatus == "Invalid Download (Connection Error)"
OtherStatus == "Invalid Download (Other Error)"

InvalidStatuses == {NotPdf, TimeoutStatus, HttpStatus, ConnStatus, OtherStatus}
TerminalStatuses == {Downloadet} \cup InvalidStatuses

PrimaryUrl == "pdf_url"
FallbackUrl == "alt_url"

\* What one requests.get of an online host can end in: a PDF streamed whole,
\* another content type, the four exception classes raised before the file is
\* opened, and two transport errors raised by iter_content while the body is
\* being written to the opened file.
Outcomes == {"ok", "notpdf", "timeout", "http", "conn", "other",
             "stream_conn", "stream_other"}

\* Seconds that pass between two evaluations of the countdown (a probe of up
\* to 5 s, the 1 s sleep, the scheduling of the thread).
Durations == {90, 180}

\* Size in bytes of the body a URL serves.
ContentBytes(url) == IF url = PrimaryUrl THEN 17408 ELSE 25088

VARIABLES
    records,              \* df_fixed: row -> [Pdf_URL, Report_Html_Address]
    store,                \* download_status.xlsx on disk (NoStore: no file)
    ledger,               \* download_status_df
    files,                \* PDF Downloads/<brnum>.pdf
    mainpc,               \* position of the main thread
    session,              \* runs of the program started so far
    num_pdfs_to_download, \* the number typed at the prompt
    downloadable_rows,    \* sequence of row identifiers
    selected_rows,        \* sequence of row identifiers
    submitted,            \* rows handed to executor.submit so far
    queue,                \* the executor's work queue
    tasks,                \* row -> state of its download_pdf call / future
    faults,               \* failing requests so far
    outages               \* offline probe answers so far

vars == <<records, store, ledger, files, mainpc, session, num_pdfs_to_download,
          downloadable_rows, selected_rows, submitted, queue, tasks, faults,
          outages>>

IDs == DOMAIN records

NoStore == [exists |-> FALSE, rows |-> <<>>]
NoFile == [src |-> "none", bytes |-> 0]
NoResult == <<>>

\* A row's task before executor.submit: no future exists. Two fields are
\* history kept for the properties, not state of the program: last is the
\* outcome of the task's latest request, only_timeouts tells that every
\* request of the running attempt_download call so far timed out.
Unsubmitted ==
    [pc |-> "none", phase |-> "none", attempt |-> 0,
     status_message |-> Downloadet, file_size_kb |-> NoSize,
     elapsed |-> 0, result |-> NoResult,
     last |-> "none", primary_last |-> "none", only_timeouts |-> TRUE]

\* ------------------------------------------------------------ pure helpers
Min(a, b) == IF a < b THEN a ELSE b

RECURSIVE SeqFilter(_, _)
\* The subsequence of s whose elements are in the set keep, in order.
SeqFilter(s, keep) ==
    IF s = <<>> THEN <<>>
    ELSE IF Head(s) \in keep THEN <<Head(s)>> \o SeqFilter(Tail(s), keep)
    ELSE SeqFilter(Tail(s), keep)

RECURSIVE Ascending(_)
\* The elements of a set of integers as an ascending sequence.
Ascending(S) ==
    IF S = {} THEN <<>>
    ELSE LET m == CHOOSE x \in S : \A y \in S : x <= y
         IN  <<m>> \o Ascending(S \ {m})

SeqRange(s) == {s[k] : k \in 1..Len(s)}

\* DataFrame.head(n) for n >= 0.
HeadRows(s, n) == SubSeq(s, 1, Min(n, Len(s)))

\* f"{file_size_kb:.2f} KB" of file_size_kb = bytes / 1024: the whole
\* kilobytes and the hundredths, rounded to nearest.
FormatKB(bytes) ==
    LET q == (bytes * 100 + 512) \div 1024
    IN  [text |-> "KB", whole |-> q \div 100, cents |-> q % 100]

\* file_size_kb as download_pdf's last return statement hands it over,
\* unformatted.
RawSize(fs) ==
    IF fs.na THEN NotApplicable
    ELSE [text |-> "float", whole |-> fs.bytes \div 1024,
          cents |-> ((fs.bytes % 1024) * 100) \div 1024]

\* pd.notna(u) and u
HasUrl(u) == u # NaN /\ u # ""

\* ------------------------------------------------------------ download_pdf
\* The URL attempt_download was called with.
UrlOf(i, t) ==
    IF t.phase = "primary" THEN records[i].Pdf_URL
    ELSE records[i].Report_Html_Address

\* EnterAttempt of a loop that probes the network only after a failure: the
\* first pass goes straight to requests.get.
EnterAttempt_NoGate(t, phase) ==
    [t EXCEPT !.pc = "request", !.phase = phase, !.attempt = 1]

\* Entry of attempt_download(url): the first pass of the for loop.
EnterAttempt(t, phase) ==
    [t EXCEPT !.pc = "probe", !.phase = phase, !.attempt = 1]

\* The three return statements of download_pdf: after a True the size is
\* formatted, the last one returns file_size_kb as it is.
ReturnTask(i, t, success) ==
    [t EXCEPT !.pc = "done",
              !.result = <<i, t.status_message,
                           IF success THEN FormatKB(t.file_size_kb.bytes)
                           ELSE RawSize(t.file_size_kb)>>]

\* attempt_download returned False: the fallback is tried after the primary
\* when it is there, else the task returns.
AfterFalse(i, t) ==
    IF t.phase = "primary" /\ HasUrl(records[i].Report_Html_Address)
    THEN EnterAttempt(t, "fallback")
    ELSE ReturnTask(i, t, FALSE)

\* download_pdf up to its first suspension point.
BeginDownload(i) ==
    LET t == [Unsubmitted EXCEPT !.pc = "running"]
    IN  IF HasUrl(records[i].Pdf_URL) THEN EnterAttempt(t, "primary")
        ELSE IF HasUrl(records[i].Report_Html_Address)
             THEN EnterAttempt(t, "fallback")
             ELSE ReturnTask(i, t, FALSE)

\* ProbeResult of a pass that only reports the outage and goes on.
ProbeResult_NoBlock(t, online) ==
    [t EXCEPT !.pc = "request"]

\* "if not has_internet_connection()" at the top of a pass.
ProbeResult(t, online) ==
    IF online THEN [t EXCEPT !.pc = "request"]
    ELSE [t EXCEPT !.pc = "wait", !.elapsed = 0]

\* WaitResult of a worker whose thread ends at the deadline without its
\* future being completed.
WaitResult_ThreadDies(t, online, d) ==
    IF online THEN [t EXCEPT !.pc = "request", !.elapsed = 0]
    ELSE LET elapsed == t.elapsed + d
             remaining == countdown_seconds - elapsed
         IN  IF remaining <= 0
             THEN [t EXCEPT !.pc = "dead", !.elapsed = elapsed]
             ELSE [t EXCEPT !.elapsed = elapsed]

\* One evaluation of "while not has_internet_connection()" and, offline, of
\* the countdown: sys.exit() raises SystemExit in the worker thread.
WaitResult(t, online, d) ==
    IF online THEN [t EXCEPT !.pc = "request", !.elapsed = 0]
    ELSE LET elapsed == t.elapsed + d
             remaining == countdown_seconds - elapsed
         IN  IF remaining <= 0
             THEN [t EXCEPT !.pc = "raised", !.elapsed = elapsed]
             ELSE [t EXCEPT !.elapsed = elapsed]

\* The status an except clause assigns.
Classify(outcome) ==
    CASE outcome = "timeout" -> TimeoutStatus
      [] outcome = "http" -> HttpStatus
      [] outcome \in {"conn", "stream_conn"} -> ConnStatus
      [] OTHER -> OtherStatus

\* The file at pdf_filename after the request: open(..., 'wb') truncates it
\* and the chunks received are written.
FileAfter(i, t, f, outcome) ==
    CASE outcome = "ok" ->
           [src |-> UrlOf(i, t), bytes |-> ContentBytes(UrlOf(i, t))]
      [] outcome \in {"stream_conn", "stream_other"} ->
           [src |-> UrlOf(i, t), bytes |-> chunk_size]
      [] OTHER -> f

\* TaskAfter with no except clause for requests.exceptions.RequestException:
\* the exception leaves download_pdf.
TaskAfter_Uncaught(i, t, outcome) ==
    CASE outcome = "ok" ->
           ReturnTask(i, [t EXCEPT !.file_size_kb =
                                   [na |-> FALSE,
                                    bytes |-> ContentBytes(UrlOf(i, t))]],
                      TRUE)
      [] outcome = "notpdf" ->
           AfterFalse(i, [t EXCEPT !.status_message = NotPdf])
      [] outcome \in {"other", "stream_other"} ->
           [t EXCEPT !.pc = "raised"]
      [] OTHER ->
           LET u == [t EXCEPT !.status_message = Classify(outcome)]
           IN  IF t.attempt < max_attempts
               THEN [u EXCEPT !.pc = "probe", !.attempt = t.attempt + 1]
               ELSE AfterFalse(i, u)

\* TaskAfter whose failure branches assign the status only while it still
\* has its initial value: the first failure reason is the one kept.
TaskAfter_FirstReasonKept(i, t, outcome) ==
    LET keep(st) == IF t.status_message = Downloadet THEN st
                    ELSE t.status_message
    IN  CASE outcome = "ok" ->
               ReturnTask(i, [t EXCEPT !.file_size_kb =
                                       [na |-> FALSE,
                                        bytes |-> ContentBytes(UrlOf(i, t))]],
                          TRUE)
          [] outcome = "notpdf" ->
               AfterFalse(i, [t EXCEPT !.status_message = keep(NotPdf)])
          [] OTHER ->
               LET u == [t EXCEPT !.status_message = keep(Classify(outcome))]
               IN  IF t.attempt < max_attempts
                   THEN [u EXCEPT !.pc = "probe", !.attempt = t.attempt + 1]
                   ELSE AfterFalse(i, u)

\* TaskAfter of a loop over range(1, max_attempts): one pass short.
TaskAfter_OnePassShort(i, t, outcome) ==
    CASE outcome = "ok" ->
           ReturnTask(i, [t EXCEPT !.file_size_kb =
                                   [na |-> FALSE,
                                    bytes |-> ContentBytes(UrlOf(i, t))]],
                      TRUE)
      [] outcome = "notpdf" ->
           AfterFalse(i, [t EXCEPT !.status_message = NotPdf])
      [] OTHER ->
           LET u == [t EXCEPT !.status_message = Classify(outcome)]
           IN  IF t.attempt < max_attempts - 1
               THEN [u EXCEPT !.pc = "probe", !.attempt = t.attempt + 1]
               ELSE AfterFalse(i, u)

\* TaskAfter that treats a wrong content type like the transport errors:
\* the pass is repeated.
TaskAfter_NotPdfRetried(i, t, outcome) ==
    CASE outcome = "ok" ->
           ReturnTask(i, [t EXCEPT !.file_size_kb =
                                   [na |-> FALSE,
                                    bytes |-> ContentBytes(UrlOf(i, t))]],
                      TRUE)
      [] OTHER ->
           LET u == [t EXCEPT !.status_message =
                         IF outcome = "notpdf" THEN NotPdf
                         ELSE Classify(outcome)]
           IN  IF t.attempt < max_attempts
               THEN [u EXCEPT !.pc = "probe", !.attempt = t.attempt + 1]
               ELSE AfterFalse(i, u)

\* The task after the try block of one pass, and what follows it.
TaskAfter(i, t, outcome) ==
    CASE outcome = "ok" ->
           ReturnTask(i, [t EXCEPT !.file_size_kb =
                                   [na |-> FALSE,
                                    bytes |-> ContentBytes(UrlOf(i, t))]],
                      TRUE)
      [] outcome = "notpdf" ->
           AfterFalse(i, [t EXCEPT !.status_message = NotPdf])
      [] OTHER ->
           LET u == [t EXCEPT !.status_message = Classify(outcome)]
           IN  IF t.attempt < max_attempts
               THEN [u EXCEPT !.pc = "probe", !.attempt = t.attempt + 1]
               ELSE AfterFalse(i, u)

\* The history fields of task u, which task t became by a request that ended
\* in outcome.
Observed(t, u, outcome) ==
    [u EXCEPT !.last = outcome,
              !.primary_last = IF t.phase = "primary" THEN outcome
                               ELSE t.primary_last,
              !.only_timeouts = IF u.phase # t.phase THEN TRUE
                                ELSE t.only_timeouts /\ outcome = "timeout"]

Active == {"probe", "wait", "request"}
Finished == {"done", "collected", "raised"}
Running == {i \in IDs : tasks[i].pc \in Active}

\* ---------------------------------------------------------------- ledger
\* A cell as pd.read_excel returns it: "N/A" is one of its default NA values.
ReadCell(x) == IF x = NotApplicable THEN NaNCell ELSE x

\* Lines 62-74: the ledger of a new run.
LoadLedger ==
    IF ~store.exists
    THEN [i \in IDs |-> [status |-> NotAttempted, size |-> NoColumn]]
    ELSE [i \in IDs |->
            [status |-> store.rows[i].status,
             size |-> IF store.rows[i].size = NoColumn THEN NotApplicable
                      ELSE ReadCell(store.rows[i].size)]]

\* Downloadable without the test of the download status.
Downloadable_AnyStatus(l) ==
    SeqFilter(Ascending(IDs), {i \in IDs : records[i].Pdf_URL # NaN})

\* Downloadable without the test of the URL.
Downloadable_AnyUrl(l) ==
    SeqFilter(Ascending(IDs), {i \in IDs : l[i].status = NotAttempted})

\* Lines 79-80.
Downloadable(l) ==
    SeqFilter(Ascending(IDs),
              {i \in IDs : records[i].Pdf_URL # NaN
                           /\ l[i].status = NotAttempted})

\* Lines 176-177: the two assignments; the second creates the File Size
\* column when it is not there.
Record(l, r) ==
    [i \in IDs |->
       IF i = r[1] THEN [status |-> r[2], size |-> r[3]]
       ELSE IF l[i].size = NoColumn THEN [l[i] EXCEPT !.size = NaNCell]
       ELSE l[i]]

\* ------------------------------------------------------------ main thread
AllSubmitted == submitted = Len(selected_rows)

\* Lines 61-95 of a new run of the program: the ledger is loaded, the rows
\* are filtered and the first n of them are selected.
StartSession(n) ==
    /\ mainpc \in {"idle", "done", "exited"}
    /\ session < MaxSessions
    /\ session' = session + 1
    /\ ledger' = LoadLedger
    /\ num_pdfs_to_download' = n
    /\ downloadable_rows' = Downloadable(LoadLedger)
    /\ selected_rows' = HeadRows(Downloadable(LoadLedger), n)
    /\ submitted' = 0
    /\ queue' = <<>>
    /\ tasks' = [i \in IDs |-> Unsubmitted]
    /\ mainpc' = "pool"
    /\ UNCHANGED <<records, store, files, faults, outages>>

\* Line 172: executor.submit of the next selected row.
Submit ==
    /\ mainpc = "pool"
    /\ ~AllSubmitted
    /\ LET i == selected_rows[submitted + 1]
       IN  /\ tasks' = [tasks EXCEPT ![i].pc = "pending"]
           /\ queue' = Append(queue, i)
    /\ submitted' = submitted + 1
    /\ UNCHANGED <<records, store, ledger, files, mainpc, session,
                   num_pdfs_to_download, downloadable_rows, selected_rows,
                   faults, outages>>

\* Lines 174-178: as_completed yields a finished future that returned, and
\* its result is written to the ledger.
Collect(i) ==
    /\ mainpc = "pool"
    /\ AllSubmitted
    /\ tasks[i].pc = "done"
    /\ ledger' = Record(ledger, tasks[i].result)
    /\ tasks' = [tasks EXCEPT ![i].pc = "collected"]
    /\ UNCHANGED <<records, store, files, mainpc, session,
                   num_pdfs_to_download, downloadable_rows, selected_rows,
                   submitted, queue, faults, outages>>

\* Line 175: future.result() of a future that holds SystemExit raises it in
\* the main thread, which leaves the loop.
CollectRaise(i) ==
    /\ mainpc = "pool"
    /\ AllSubmitted
    /\ tasks[i].pc = "raised"
    /\ mainpc' = "abort"
    /\ UNCHANGED <<records, store, ledger, files, session,
                   num_pdfs_to_download, downloadable_rows, selected_rows,
                   submitted, queue, tasks, faults, outages>>

\* Save of a program that writes the spreadsheet once the tasks have been
\* submitted, without the loop over the finished futures before it.
Save_Early ==
    /\ mainpc = "pool"
    /\ AllSubmitted
    /\ store' = [exists |-> TRUE, rows |-> ledger]
    /\ mainpc' = "done"
    /\ UNCHANGED <<records, ledger, files, session, num_pdfs_to_download,
                   downloadable_rows, selected_rows, submitted, queue, tasks,
                   faults, outages>>

\* Line 183, after the loop has yielded every future.
Save ==
    /\ mainpc = "pool"
    /\ AllSubmitted
    /\ \A i \in SeqRange(selected_rows) : tasks[i].pc = "collected"
    /\ store' = [exists |-> TRUE, rows |-> ledger]
    /\ mainpc' = "done"
    /\ UNCHANGED <<records, ledger, files, session, num_pdfs_to_download,
                   downloadable_rows, selected_rows, submitted, queue, tasks,
                   faults, outages>>

\* Exit of a program that saves the ledger in a finally clause.
Exit_Saves ==
    /\ mainpc = "abort"
    /\ \A i \in SeqRange(selected_rows) : tasks[i].pc \in Finished
    /\ mainpc' = "exited"
    /\ store' = [exists |-> TRUE, rows |-> ledger]
    /\ UNCHANGED <<records, ledger, files, session,
                   num_pdfs_to_download, downloadable_rows, selected_rows,
                   submitted, queue, tasks, faults, outages>>

\* Line 168, leaving the with block on SystemExit: shutdown(wait=True) joins
\* the workers, which first run every queued work item; then the process
\* ends without reaching line 183.
Exit ==
    /\ mainpc = "abort"
    /\ \A i \in SeqRange(selected_rows) : tasks[i].pc \in Finished
    /\ mainpc' = "exited"
    /\ UNCHANGED <<records, store, ledger, files, session,
                   num_pdfs_to_download, downloadable_rows, selected_rows,
                   submitted, queue, tasks, faults, outages>>

\* ---------------------------------------------------------------- workers
\* StartTask of a pool that starts a thread for every work item.
StartTask_Unbounded(i) ==
    /\ mainpc \in {"pool", "abort"}
    /\ queue # <<>>
    /\ i = Head(queue)
    /\ queue' = Tail(queue)
    /\ tasks' = [tasks EXCEPT ![i] = BeginDownload(i)]
    /\ UNCHANGED <<records, store, ledger, files, mainpc, session,
                   num_pdfs_to_download, downloadable_rows, selected_rows,
                   submitted, faults, outages>>

\* A worker thread of the pool takes the next work item and calls
\* download_pdf(row); the pool has at most max_workers threads.
StartTask(i) ==
    /\ mainpc \in {"pool", "abort"}
    /\ queue # <<>>
    /\ i = Head(queue)
    /\ Cardinality(Running) < max_workers
    /\ queue' = Tail(queue)
    /\ tasks' = [tasks EXCEPT ![i] = BeginDownload(i)]
    /\ UNCHANGED <<records, store, ledger, files, mainpc, session,
                   num_pdfs_to_download, downloadable_rows, selected_rows,
                   submitted, faults, outages>>

\* Line 111.
Probe(i) ==
    /\ tasks[i].pc = "probe"
    /\ \E online \in BOOLEAN :
          /\ online \/ outages < MaxOffline
          /\ tasks' = [tasks EXCEPT ![i] = ProbeResult(tasks[i], online)]
          /\ outages' = IF online THEN outages ELSE outages + 1
    /\ UNCHANGED <<records, store, ledger, files, mainpc, session,
                   num_pdfs_to_download, downloadable_rows, selected_rows,
                   submitted, queue, faults>>

\* Lines 116-124.
WaitPoll(i) ==
    /\ tasks[i].pc = "wait"
    /\ \E online \in BOOLEAN, d \in Durations :
          /\ online \/ outages < MaxOffline
          /\ tasks' = [tasks EXCEPT ![i] = WaitResult(tasks[i], online, d)]
          /\ outages' = IF online THEN outages ELSE outages + 1
    /\ UNCHANGED <<records, store, ledger, files, mainpc, session,
                   num_pdfs_to_download, downloadable_rows, selected_rows,
                   submitted, queue, faults>>

\* Request of a download_pdf that writes its own outcome to the ledger.
Request_WritesLedger(i) ==
    /\ tasks[i].pc = "request"
    /\ \E outcome \in Outcomes :
          LET t == Observed(tasks[i], TaskAfter(i, tasks[i], outcome), outcome)
          IN  /\ outcome = "ok" \/ faults < MaxFaults
              /\ tasks' = [tasks EXCEPT ![i] = t]
              /\ files' = [files EXCEPT
                             ![i] = FileAfter(i, tasks[i], files[i], outcome)]
              /\ faults' = IF outcome = "ok" THEN faults ELSE faults + 1
              /\ ledger' = IF t.pc = "done" THEN Record(ledger, t.result)
                           ELSE ledger
    /\ UNCHANGED <<records, store, mainpc, session,
                   num_pdfs_to_download, downloadable_rows, selected_rows,
                   submitted, queue, outages>>

\* Lines 128-155, and the return of download_pdf that may follow.
Request(i) ==
    /\ tasks[i].pc = "request"
    /\ \E outcome \in Outcomes :
          /\ outcome = "ok" \/ faults < MaxFaults
          /\ tasks' = [tasks EXCEPT
                         ![i] = Observed(tasks[i],
                                         TaskAfter(i, tasks[i], outcome),
                                         outcome)]
          /\ files' = [files EXCEPT
                         ![i] = FileAfter(i, tasks[i], files[i], outcome)]
          /\ faults' = IF outcome = "ok" THEN faults ELSE faults + 1
    /\ UNCHANGED <<records, store, ledger, mainpc, session,
                   num_pdfs_to_download, downloadable_rows, selected_rows,
                   submitted, queue, outages>>

\* download_pdf of a row run through in one step with the network up and
\* the host serving the PDF (the pool specification).
RunHealthy(i) ==
    /\ tasks[i].pc = "probe"
    /\ LET t == ProbeResult(tasks[i], TRUE)
       IN  /\ tasks' = [tasks EXCEPT
                          ![i] = Observed(t, TaskAfter(i, t, "ok"), "ok")]
           /\ files' = [files EXCEPT ![i] = FileAfter(i, t, files[i], "ok")]
    /\ UNCHANGED <<records, store, ledger, mainpc, session,
                   num_pdfs_to_download, downloadable_rows, selected_rows,
                   submitted, queue, faults, outages>>

\* ---------------------------------------------------------- specifications
RecordKinds ==
    [Pdf_URL : {NaN, PrimaryUrl}, Report_Html_Address : {NaN, FallbackUrl}]

InitWith(rs) ==
    /\ records = rs
    /\ store = NoStore
    /\ ledger = [i \in DOMAIN rs |-> [status |-> NotAttempted, size |-> NoColumn]]
    /\ files = [i \in DOMAIN rs |-> NoFile]
    /\ mainpc = "idle"
    /\ session = 0
    /\ num_pdfs_to_download = 0
    /\ downloadable_rows = <<>>
    /\ selected_rows = <<>>
    /\ submitted = 0
    /\ queue = <<>>
    /\ tasks = [i \in DOMAIN rs |-> Unsubmitted]
    /\ faults = 0
    /\ outages = 0

Init == \E rs \in [1..NumRecords -> RecordKinds] : InitWith(rs)

Next ==
    \/ \E n \in 0..MaxLimit : StartSession(n)
    \/ Submit
    \/ \E i \in IDs : StartTask(i)
    \/ \E i \in IDs : Probe(i)
    \/ \E i \in IDs : WaitPoll(i)
    \/ \E i \in IDs : Request(i)
    \/ \E i \in IDs : Collect(i)
    \/ \E i \in IDs : CollectRaise(i)
    \/ Save
    \/ Exit

Spec == Init /\ [][Next]_vars

\* The steps of the worker thread that runs the task of row i, and those of
\* the main thread.
WorkerStep(i) == StartTask(i) \/ Probe(i) \/ WaitPoll(i) \/ Request(i)

MainStep ==
    \/ Submit
    \/ \E i \in IDs : Collect(i)
    \/ \E i \in IDs : CollectRaise(i)
    \/ Save
    \/ Exit

\* Every thread that can take a step takes one: requests.get and the probe
\* return within their timeouts, a free pool thread picks up the next work
\* item, and as_completed hands every finished future to the main thread.
\* Whether the program is run again is up to the user.
Fairness ==
    /\ WF_vars(MainStep)
    /\ \A i \in 1..NumRecords : WF_vars(WorkerStep(i))

\* A spreadsheet whose first row has both URLs and whose other rows have
\* the primary only.
InitFair ==
    InitWith([i \in 1..NumRecords |->
                [Pdf_URL |-> PrimaryUrl,
                 Report_Html_Address |-> IF i = 1 THEN FallbackUrl ELSE NaN]])

SpecFair == InitFair /\ [][Next]_vars /\ Fairness

\* A spreadsheet of more rows than the pool has threads, every row with a
\* primary URL, and all of them asked for.
InitPool ==
    InitWith([i \in 1..NumPoolRecords |->
                [Pdf_URL |-> PrimaryUrl, Report_Html_Address |-> NaN]])

NextPool ==
    \/ StartSession(NumPoolRecords)
    \/ Submit
    \/ \E i \in IDs : StartTask(i)
    \/ \E i \in IDs : RunHealthy(i)
    \/ \E i \in IDs : Collect(i)
    \/ Save

SpecPool == InitPool /\ [][NextPool]_vars

\* ------------------------------------------------------------------ claims
Returned(i) == tasks[i].pc \in {"done", "collected"}
\* The task returned through one of the two returns that follow a True.
Succeeded(i) == Returned(i) /\ ~tasks[i].file_size_kb.na
Entry(st, sz) == [status |-> st, size |-> sz]
Whole(f) == f # NoFile /\ f.bytes = ContentBytes(f.src)
FatalFired == \E i \in IDs : tasks[i].pc = "raised"
\* The loop of lines 174-178 has yielded every future; line 183 is next.
SessionComplete ==
    /\ mainpc = "pool"
    /\ AllSubmitted
    /\ \A i \in SeqRange(selected_rows) : tasks[i].pc = "collected"

\* C1: when the fetch of the primary URL failed and the fetch of the fallback
\* URL then succeeded, the task returns, and the ledger gets, the status
\* 'Downloadet' with the size of the fallback's file.
C1_FallbackSuccessIsSuccess ==
    \A i \in IDs :
        (Succeeded(i) /\ tasks[i].phase = "fallback"
                      /\ HasUrl(records[i].Pdf_URL))
        => /\ tasks[i].result =
                <<i, Downloadet, FormatKB(ContentBytes(FallbackUrl))>>
           /\ tasks[i].pc = "collected" =>
                ledger[i] = Entry(Downloadet,
                                  FormatKB(ContentBytes(FallbackUrl)))

\* C2: when attempt 2 or 3 of a URL succeeds after the earlier attempts of
\* that URL failed with a retriable error, the task's recorded status is
\* 'Downloadet'.
C2_LaterAttemptSuccessIsSuccess ==
    \A i \in IDs :
        (Succeeded(i) /\ tasks[i].phase = "primary" /\ tasks[i].attempt >= 2)
        => /\ tasks[i].result[2] = Downloadet
           /\ tasks[i].pc = "collected" => ledger[i].status = Downloadet

\* C3: after a row's task has ended, a file at its destination path is the
\* whole body of a fetch that succeeded; a failed attempt leaves no
\* partially written file.
C3_NoPartialFile ==
    \A i \in IDs :
        (Returned(i) /\ files[i] # NoFile)
        => Whole(files[i]) /\ (session = 1 => Succeeded(i))

\* C4: once the fatal exit has fired in one worker, no other task, whether
\* it was in flight or queued at that point, makes a further connectivity
\* probe or request or writes a file.
C4_FatalExitStopsAllTasks ==
    [][FatalFired =>
         /\ files' = files
         /\ \A j \in IDs : tasks[j].pc \in Active => tasks'[j] = tasks[j]
      ]_vars

\* C5 as stated: no task ends by raising, and when a session has ended every
\* row dispatched in it has a terminal status in the ledger.
C5_EveryDispatchedRowEndsTerminal ==
    /\ \A i \in IDs : tasks[i].pc # "raised"
    /\ mainpc \in {"done", "exited"} =>
          \A i \in SeqRange(selected_rows) :
              ledger[i].status \in TerminalStatuses

\* C5 as amended: a task raises only from the countdown of the offline wait
\* having run out (the fatal exit); every other task returns its own
\* identifier with a terminal status; a session ends either with every
\* dispatched row terminal in the ledger and in the store, or by the fatal
\* exit.
C5_RequestErrorsBecomeStatuses ==
    /\ \A i \in IDs :
          /\ tasks[i].pc = "raised" => tasks[i].elapsed >= countdown_seconds
          /\ Returned(i) => /\ tasks[i].result[1] = i
                            /\ tasks[i].result[2] \in TerminalStatuses
    /\ mainpc = "done" =>
          \A i \in SeqRange(selected_rows) :
              /\ ledger[i].status \in TerminalStatuses
              /\ store.rows[i] = ledger[i]
    /\ mainpc \in {"abort", "exited"} => FatalFired

\* C5 witness: a session has been saved in which a request error of every
\* attempt became the status of a dispatched row.
C5_Witness ==
    /\ mainpc = "done"
    /\ \E i \in SeqRange(selected_rows) :
          /\ tasks[i].attempt = max_attempts
          /\ store.rows[i].status \in InvalidStatuses \ {NotPdf}

\* C6: at the start of a session every row that is not attempted and has a
\* primary or a fallback URL is a candidate, and is selected when the limit
\* is not used up.
C6_FallbackOnlyIsCandidate ==
    (mainpc = "pool" /\ submitted = 0) =>
        \A i \in IDs :
            (ledger[i].status = NotAttempted
             /\ (HasUrl(records[i].Pdf_URL)
                 \/ HasUrl(records[i].Report_Html_Address)))
            => /\ i \in SeqRange(downloadable_rows)
               /\ Len(selected_rows) < num_pdfs_to_download =>
                    i \in SeqRange(selected_rows)

\* The status of row i in the store a running session started from.
StartStatus(i) == LoadLedger[i].status

Candidates ==
    SeqFilter(Ascending(IDs),
              {i \in IDs : /\ StartStatus(i) = NotAttempted
                           /\ \/ HasUrl(records[i].Pdf_URL)
                              \/ HasUrl(records[i].Report_Html_Address)})

\* C8: when the loop of a session has recorded every result, the rows whose
\* status moved to a terminal one are exactly the first min(n, L) of the n
\* candidates, and the status of every other row is what it was.
C8_FirstMinCandidatesMove ==
    SessionComplete =>
        LET first == SeqRange(HeadRows(Candidates, num_pdfs_to_download))
        IN  /\ Cardinality(first) =
                 Min(Len(Candidates), num_pdfs_to_download)
            /\ \A i \in IDs :
                  IF i \in first
                  THEN ledger[i].status \in TerminalStatuses
                  ELSE ledger[i].status = StartStatus(i)

\* C9: at most max_workers tasks are running.
C9_AtMostMaxWorkersRunning == Cardinality(Running) <= max_workers

\* C9 witness: max_workers tasks are running while a submitted task waits
\* in the queue.
C9_Witness == Cardinality(Running) = max_workers /\ queue # <<>>

\* C10: within a session the ledger changes only in a step of the main
\* thread's result loop: no task moves and no file or request is made in
\* that step, and the step writes the status and the size one finished
\* task returned to the row of that task's identifier, and no other status.
C10_OnlyCollectWritesLedger ==
    [][(session' = session /\ ledger' # ledger) =>
         /\ mainpc = "pool" /\ AllSubmitted
         /\ files' = files /\ faults' = faults /\ outages' = outages
         /\ \E i \in IDs :
               /\ tasks[i].pc = "done" /\ tasks'[i].pc = "collected"
               /\ tasks[i].result[1] = i
               /\ ledger'[i] = Entry(tasks[i].result[2], tasks[i].result[3])
               /\ \A j \in IDs \ {i} :
                     /\ tasks'[j] = tasks[j]
                     /\ ledger'[j].status = ledger[j].status
      ]_vars

\* C10 witness: one task's result is in the ledger while another task is
\* still running.
C10_Witness ==
    \E i, j \in IDs :
        /\ tasks[i].pc = "collected"
        /\ ledger[i] = Entry(tasks[i].result[2], tasks[i].result[3])
        /\ tasks[j].pc \in Active

NoUrls(i) ==
    ~HasUrl(records[i].Pdf_URL) /\ ~HasUrl(records[i].Report_Html_Address)

\* C11: a row with neither a primary nor a fallback URL is never selected
\* and never submitted, and its status stays 'Ikke downloadet' in the ledger
\* and in the store, whatever the limit.
C11_NoUrlRowsNeverDispatched ==
    \A i \in IDs :
        NoUrls(i)
        => /\ i \notin SeqRange(downloadable_rows)
           /\ i \notin SeqRange(selected_rows)
           /\ tasks[i].pc = "none"
           /\ ledger[i].status = NotAttempted
           /\ store.exists => store.rows[i].status = NotAttempted

\* C11 witness: a session with a limit that would have covered every row
\* has been saved, it dispatched a row, and a row without URLs is left.
C11_Witness ==
    /\ mainpc = "done"
    /\ num_pdfs_to_download >= Cardinality(IDs)
    /\ \E i, j \in IDs :
          /\ NoUrls(i)
          /\ store.rows[i].status = NotAttempted
          /\ tasks[j].pc = "collected"

\* The status the failure of a request is to be recorded as.
ExpectedStatus(outcome) ==
    CASE outcome = "notpdf" -> NotPdf
      [] outcome = "timeout" -> TimeoutStatus
      [] outcome = "http" -> HttpStatus
      [] outcome \in {"conn", "stream_conn"} -> ConnStatus
      [] outcome \in {"other", "stream_other"} -> OtherStatus
      [] OTHER -> Downloadet
\* A step in which task i gets the answer to a request.
RequestStep(i) == tasks[i].pc = "request" /\ tasks'[i] # tasks[i]
\* After that step the attempt_download call of task i is over.
CallOver(i) == tasks'[i].pc = "done" \/ tasks'[i].phase # tasks[i].phase
\* After that step the same attempt_download call makes its next pass.
NextPass(i) ==
    /\ tasks'[i].pc = "probe"
    /\ tasks'[i].phase = tasks[i].phase
    /\ tasks'[i].attempt = tasks[i].attempt + 1

\* C12: a request is the request of pass 1, 2 or 3 of its call; while every
\* request of a call has timed out the call goes on to its next pass, and
\* the third timeout ends it with the status InvalidTimeout, which the task
\* returns without a size when no other URL follows and the ledger then
\* records; a call that ends on its third failed pass leaves the status of
\* that last failure.
C12_ThreeTimeoutsThenInvalidTimeout ==
    /\ [](\A i \in 1..NumRecords :
            /\ tasks[i].pc \in Active => tasks[i].attempt \in 1..max_attempts
            /\ (tasks[i].pc = "collected" /\ tasks[i].only_timeouts
                 /\ tasks[i].last = "timeout")
               => /\ tasks[i].attempt = max_attempts
                  /\ ledger[i] = Entry(TimeoutStatus, NotApplicable))
    /\ [][\A i \in 1..NumRecords :
            RequestStep(i) =>
              LET o == tasks'[i].last
                  allTimedOut == tasks[i].only_timeouts /\ o = "timeout"
                  third == tasks[i].attempt = max_attempts
              IN  /\ (allTimedOut /\ ~third) => NextPass(i)
                  /\ (allTimedOut /\ third)
                     => /\ CallOver(i)
                        /\ tasks'[i].status_message = TimeoutStatus
                        /\ tasks'[i].pc = "done" =>
                             /\ tasks'[i].result[2] = TimeoutStatus
                             /\ tasks'[i].result[3] = NotApplicable
                  /\ (o \notin {"ok", "notpdf"} /\ third)
                     => /\ CallOver(i)
                        /\ tasks'[i].status_message = ExpectedStatus(o)
                        /\ tasks'[i].pc = "done" =>
                             tasks'[i].result[2] = ExpectedStatus(o)
        ]_vars

\* C12 witness: the three requests of a row's only URL timed out and the
\* ledger has InvalidTimeout for the row.
C12_Witness ==
    \E i \in IDs :
        /\ tasks[i].pc = "collected"
        /\ tasks[i].only_timeouts /\ tasks[i].last = "timeout"
        /\ tasks[i].attempt = max_attempts
        /\ ledger[i].status = TimeoutStatus

\* C13: a request answered with another content type than application/pdf
\* ends its attempt_download call at once with the status InvalidNotPdf:
\* no further pass of that call follows and the file is not touched.
C13_NotPdfEndsTheCall ==
    [][\A i \in 1..NumRecords :
         (RequestStep(i) /\ tasks'[i].last = "notpdf")
         => /\ CallOver(i)
            /\ tasks'[i].status_message = NotPdf
            /\ files' = files
            /\ tasks'[i].pc = "done" =>
                 /\ tasks'[i].attempt = tasks[i].attempt
                 /\ tasks'[i].result = <<i, NotPdf, NotApplicable>>
      ]_vars

\* C13 witness: a task has returned InvalidNotPdf after the first request
\* of its only URL, with no file written.
C13_Witness ==
    \E i \in IDs :
        /\ tasks[i].pc = "done"
        /\ tasks[i].phase = "primary"
        /\ tasks[i].attempt = 1
        /\ tasks[i].last = "notpdf"
        /\ tasks[i].result[2] = NotPdf
        /\ files[i] = NoFile

\* The task returned through the last return statement, with no size.
Failed(i) == Returned(i) /\ tasks[i].file_size_kb.na

\* C14: the calls of attempt_download come in the order primary, fallback;
\* the fallback call is entered only for a row that has a fallback URL, and
\* only at the start of the task when the primary is blank or by the failed
\* request that ends the primary call, never by a successful one; a task
\* that returns without success returns, and the ledger gets, the status of
\* the last failed request of the call that ran last.
C14_PrimaryFirstLastFailureRecorded ==
    /\ [](\A i \in 1..NumRecords :
            /\ Failed(i) => tasks[i].result[2] = ExpectedStatus(tasks[i].last)
            /\ (Failed(i) /\ tasks[i].pc = "collected")
               => ledger[i].status = ExpectedStatus(tasks[i].last)
            /\ (Failed(i) /\ tasks[i].phase = "primary")
               => tasks[i].last = tasks[i].primary_last
            /\ tasks[i].phase = "fallback"
               => /\ HasUrl(records[i].Report_Html_Address)
                  /\ \/ ~HasUrl(records[i].Pdf_URL)
                     \/ tasks[i].primary_last \notin {"none", "ok"})
    /\ [][\A i \in 1..NumRecords :
            /\ tasks'[i].phase # tasks[i].phase
               => \/ tasks'[i] = Unsubmitted
                  \/ tasks[i].phase = "none" /\ tasks'[i].phase = "primary"
                  \/ /\ tasks[i].phase = "none"
                     /\ tasks'[i].phase = "fallback"
                     /\ ~HasUrl(records[i].Pdf_URL)
                  \/ /\ tasks[i].phase = "primary"
                     /\ tasks'[i].phase = "fallback"
                     /\ RequestStep(i)
                     /\ tasks'[i].last # "ok"
                     /\ tasks'[i].file_size_kb.na
            /\ (RequestStep(i) /\ tasks'[i].last = "ok")
               => tasks'[i].pc = "done" /\ tasks'[i].phase = tasks[i].phase
        ]_vars

\* C14 witness: the primary and the fallback failed for different reasons
\* and the ledger has the fallback's.
C14_Witness ==
    \E i \in IDs :
        /\ tasks[i].pc = "collected"
        /\ tasks[i].phase = "fallback"
        /\ tasks[i].file_size_kb.na
        /\ tasks[i].primary_last \notin {"none", "ok"}
        /\ ExpectedStatus(tasks[i].primary_last) # ExpectedStatus(tasks[i].last)
        /\ ledger[i].status = ExpectedStatus(tasks[i].last)

\* C15: the store is written only by the step that ends a session in which
\* no task raised SystemExit; in a session that ends through the fatal exit
\* the store still has every selected row as not attempted, and what the
\* ledger has that the store has not are the rows collected in the session.
C15_FatalExitLeavesStore ==
    /\ [](/\ mainpc \in {"abort", "exited"}
             => /\ FatalFired
                /\ \A i \in SeqRange(selected_rows) :
                      StartStatus(i) = NotAttempted
          /\ mainpc = "done" => ~FatalFired
          /\ \A i \in 1..NumRecords :
                ledger[i].status # StartStatus(i)
                => tasks[i].pc = "collected" \/ mainpc = "done")
    /\ [][store' # store
          => /\ ~FatalFired
             /\ mainpc = "pool" /\ mainpc' = "done"
             /\ tasks' = tasks
        ]_vars

\* C15 witness: the program has ended through the fatal exit after a task
\* of the session was collected with a status the store does not have.
C15_Witness ==
    /\ mainpc = "exited"
    /\ \E i \in IDs :
          /\ tasks[i].pc = "collected"
          /\ ledger[i].status \in TerminalStatuses
          /\ StartStatus(i) = NotAttempted

\* A step in which task i calls has_internet_connection(): at the top of a
\* pass, or in the condition of the wait loop.
ProbeStep(i) == tasks[i].pc = "probe" /\ tasks'[i] # tasks[i]
WaitStep(i) == tasks[i].pc = "wait" /\ tasks'[i] # tasks[i]
\* That call answered True.
AnsweredOnline == outages' = outages
\* The step leaves the pass counter, the call and the status of task i as
\* they are.
SamePass(i) ==
    /\ tasks'[i].attempt = tasks[i].attempt
    /\ tasks'[i].phase = tasks[i].phase
    /\ tasks'[i].status_message = tasks[i].status_message
    /\ tasks'[i].last = tasks[i].last

\* C16 as stated: a task calls the connectivity probe only after one of its
\* requests has failed.
C16_ProbeOnlyAfterFailedRequest ==
    [][\A i \in 1..NumRecords :
         (ProbeStep(i) \/ WaitStep(i))
         => tasks[i].last \notin {"none", "ok"}
      ]_vars

\* C16 as amended: every pass of attempt_download begins with the probe, the
\* first pass of a task included, and a request is issued only from a probe
\* of the same pass that answered online.
C16_ProbeGatesEveryRequest ==
    /\ [](\A i \in 1..NumRecords :
            (tasks[i].pc = "request" /\ tasks[i].last = "none")
            => tasks[i].attempt = 1)
    /\ [][\A i \in 1..NumRecords :
            /\ (tasks'[i].pc = "request" /\ tasks[i].pc # "request")
               => /\ ProbeStep(i) \/ WaitStep(i)
                  /\ AnsweredOnline
                  /\ SamePass(i)
            /\ (tasks'[i].pc \in Active
                 /\ \/ tasks'[i].attempt # tasks[i].attempt
                    \/ tasks'[i].phase # tasks[i].phase)
               => tasks'[i].pc = "probe"
            /\ (RequestStep(i) /\ tasks'[i].pc \in Active)
               => tasks'[i].pc = "probe"
        ]_vars

\* C16 witness: a task is about to make its first request, which the probe
\* has let through; none of its requests has failed.
C16_Witness ==
    \E i \in IDs :
        /\ tasks[i].pc = "request"
        /\ tasks[i].phase = "primary"
        /\ tasks[i].attempt = 1
        /\ tasks[i].last = "none"
        /\ tasks[i].status_message = Downloadet

\* C17: a probe that answers offline puts the task in the wait loop; the
\* loop is left for the request when a probe answers online, and by
\* SystemExit when the countdown of 180 seconds has run out with every probe
\* offline, and in no other way; neither the probe nor the wait changes the
\* pass counter.
C17_OfflineBlocksWithoutConsumingAttempts ==
    /\ [](\A i \in 1..NumRecords :
            /\ tasks[i].pc = "wait" => tasks[i].elapsed < countdown_seconds
            /\ tasks[i].pc = "raised" => tasks[i].elapsed >= countdown_seconds)
    /\ [][\A i \in 1..NumRecords :
            /\ ProbeStep(i)
               => /\ SamePass(i)
                  /\ IF AnsweredOnline THEN tasks'[i].pc = "request"
                     ELSE tasks'[i].pc = "wait" /\ tasks'[i].elapsed = 0
            /\ WaitStep(i)
               => /\ SamePass(i)
                  /\ IF AnsweredOnline THEN tasks'[i].pc = "request"
                     ELSE /\ tasks'[i].elapsed > tasks[i].elapsed
                          /\ tasks'[i].pc =
                               IF tasks'[i].elapsed >= countdown_seconds
                               THEN "raised" ELSE "wait"
            /\ (tasks'[i].pc = "raised" /\ tasks[i].pc # "raised")
               => WaitStep(i)
        ]_vars

\* C17 witness: in a session of one task the network was found offline, and
\* the task then downloaded the file in its first pass.
C17_Witness ==
    /\ session = 1
    /\ Len(selected_rows) = 1
    /\ outages >= 1
    /\ \E i \in IDs :
          /\ tasks[i].pc = "collected"
          /\ tasks[i].phase = "primary"
          /\ tasks[i].attempt = 1
          /\ tasks[i].last = "ok"
          /\ ledger[i].status = Downloadet

\* C18: every task that has been submitted and has not finished finishes, by
\* returning or by SystemExit, and every session that has started ends with
\* the ledger saved or with the program's exit.
C18_TasksAndSessionsEnd ==
    /\ \A i \in 1..NumRecords :
          (tasks[i].pc \in {"pending"} \cup Active)
          ~> (tasks[i].pc \in Finished)
    /\ (mainpc \in {"pool", "abort"}) ~> (mainpc \in {"done", "exited"})

\* C18 witness: a session of two tasks that met failed requests and an
\* outage has ended, with both tasks finished.
C18_Witness ==
    /\ mainpc \in {"done", "exited"}
    /\ Len(selected_rows) = 2
    /\ \A i \in SeqRange(selected_rows) : tasks[i].pc \in Finished
    /\ faults >= 1
    /\ outages >= 1

\* The step in which the main thread takes the result of task i.
CollectStep(i) == tasks'[i].pc = "collected" /\ tasks[i].pc # "collected"
\* The step that ends a session by writing the store.
SaveStep == mainpc = "pool" /\ mainpc' = "done"

\* C19: the store is written by the step that ends the session and by no
\* other; at that step every selected task has been collected, none is
\* queued or running, the ledger has each task's result, and the store
\* becomes the ledger; each task is collected once, by a step that writes
\* its result to its own row of the ledger and leaves the store alone.
C19_StoreWrittenOnceAfterAllCollected ==
    /\ [](mainpc = "done"
          => /\ store = [exists |-> TRUE, rows |-> ledger]
             /\ tasks = [i \in IDs |->
                           IF tasks[i].pc = "collected" THEN tasks[i]
                           ELSE Unsubmitted])
    /\ [][/\ (store' # store \/ mainpc' = "done") => SaveStep \/ mainpc = "done"
          /\ mainpc = "done" => store' = store
          /\ SaveStep
             => /\ store' = [exists |-> TRUE, rows |-> ledger]
                /\ ledger' = ledger
                /\ \A i \in 1..NumRecords :
                      /\ tasks[i].pc \notin {"pending"} \cup Active
                      /\ tasks[i].pc # "none"
                         => /\ tasks[i].pc = "collected"
                            /\ ledger[i] = Entry(tasks[i].result[2],
                                                 tasks[i].result[3])
          /\ \A i \in 1..NumRecords :
                /\ CollectStep(i)
                   => /\ tasks[i].pc = "done"
                      /\ ledger'[i] = Entry(tasks[i].result[2],
                                            tasks[i].result[3])
                      /\ \A j \in 1..NumRecords :
                            j # i => /\ ledger'[j].status = ledger[j].status
                                     /\ tasks'[j] = tasks[j]
                      /\ store' = store
                /\ tasks[i].pc = "collected"
                   => tasks'[i] = tasks[i] \/ tasks' = [j \in IDs |-> Unsubmitted]
        ]_vars

\* C19 witness: a session of two tasks has ended and the store has the
\* result of both.
C19_Witness ==
    /\ mainpc = "done"
    /\ Len(selected_rows) = 2
    /\ \A i \in SeqRange(selected_rows) :
          /\ tasks[i].pc = "collected"
          /\ store.rows[i] = Entry(tasks[i].result[2], tasks[i].result[3])
          /\ store.rows[i].status \in TerminalStatuses

\* C20: a row the session has written has a size exactly when its status is
\* 'Downloadet'.
C20_SizeIffDownloadet ==
    \A i \in IDs :
        tasks[i].pc = "collected"
        => (ledger[i].size \notin {NotApplicable, NaNCell, NoColumn}
            <=> ledger[i].status = Downloadet)
====
